---- MODULE Spec2Model ----
(***************************************************************************)
(* Model of the cistern server of tidb-binlog (src/cistern/server.go):     *)
(* the pull RPC DumpBinlog, the server lifecycle (NewServer, Start, Close) *)
(* and, from the design document, the DepositWindow and the Collector that *)
(* the server wires together (their code is not part of src/).             *)
(***************************************************************************)
EXTENDS Integers, Sequences, FiniteSets, TLC

(***************************************************************************)
(* Bounds of the model.                                                    *)
(***************************************************************************)
\* commit timestamps the producers deliver are 1..MaxTS
MaxTS == 3
\* DumpBinlogReq.Limit ranges over -1..MaxLimit
MaxLimit == 2
\* the process crashes and restarts at most MaxCrashes times
MaxCrashes == 1

\* The sign bit codec.EncodeInt flips.  The program's integers are int64
\* (sign bit 2^63); the model keeps the two's complement layout on a narrow
\* word so that TLC's integers hold every encoded key.
SignMask == 8

Producers == {"p1", "p2"}
TS == 1 .. MaxTS
\* BeginCommitTS of a request: a negative value, zero, every stored value
Begins == -1 .. MaxTS
Limits == -1 .. MaxLimit
Tasks == {"collector", "publisher", "metrics"}

\* error values: the nil error, and the error decodePayload returns
Nil == "nil"
ErrDecode == "decodePayload"

VARIABLES
    \* ---- Server (server.go:30-41) ----
    metricsOn,  \* s.metrics # nil
    gsStopped,  \* s.gs has been stopped (GracefulStop)
    cancelled,  \* s.ctx is cancelled
    wg,         \* s.wg: the WaitGroup counter
    storeOpen,  \* s.boltdb is open
    task,       \* the goroutines StartCollect/StartPublish/StartMetrics launch
    startPc,    \* position of the caller of Start
    closePc,    \* position of the caller of Close
    launchedAtClose, \* history: were all tasks launched when Close was called
    \* ---- store.Store, DepositWindow, Collector ----
    binlog,     \* BinlogNamespace: encoded key -> stored value
    lower,      \* persisted Window.lower
    upper,      \* persisted Window.upper
    conn,       \* per producer: "none", "active", "gone"
    watermark,  \* per producer: last commitTS it delivered (0: none yet)
    ppc,        \* per producer ingestion task: "idle", "written"
    \* ---- one DumpBinlog call ----
    rpcPc,      \* "idle", "scan", "returned"
    req,        \* the DumpBinlogReq
    end,        \* local variable end (server.go:94)
    ret,        \* the DumpBinlogResp under construction
    err,        \* the error Scan returned
    visited,    \* number of store records the scan handed to the callback
    reply,      \* what the transport gives the client
    \* ---- Publisher ----
    savePoint,  \* persisted SavePoint: commitTS of the last confirmed entry
    pubPc,      \* "idle", "scan", "persist"
    pubEnd,     \* safeEnd of the round in progress
    pubCur,     \* commitTS of the entry in hand (0: none)
    attempted,  \* history: commitTS of the entries handed to the sink
    confirmed,  \* history: commitTS of the entries the sink has confirmed
    boots       \* history: number of crashes and restarts of the process

serverVars == <<metricsOn, gsStopped, cancelled, wg, storeOpen, task, startPc,
                closePc, launchedAtClose>>
dataVars == <<binlog, lower, upper, conn, watermark, ppc>>
rpcVars == <<rpcPc, req, end, ret, err, visited, reply>>
pubVars == <<savePoint, pubPc, pubEnd, pubCur, attempted, confirmed, boots>>
vars == <<serverVars, dataVars, rpcVars, pubVars>>

(***************************************************************************)
(* codec.EncodeInt / codec.DecodeInt: the order-preserving key encoding.   *)
(* EncodeInt writes the value with its sign bit flipped as an unsigned     *)
(* big-endian word, so byte order of keys is numeric order of values.      *)
(***************************************************************************)
EncodeInt(v) == (v + 2 * SignMask + SignMask) % (2 * SignMask)

DecodeInt(k) == k - SignMask

\* the stored value of an entry: the serialized payload of commitTS ts;
\* a value that is not well formed does not decode
StoredVal(ts, wellFormed) == [payload |-> ts, wellFormed |-> wellFormed]

decodePayload(val) ==
    IF val.wellFormed THEN [payload |-> val.payload, err |-> Nil]
    ELSE [payload |-> 0, err |-> ErrDecode]

SetMin(S) == CHOOSE x \in S : \A y \in S : x <= y
SetMax(S) == CHOOSE x \in S : \A y \in S : x >= y

(***************************************************************************)
(* DumpBinlog (server.go:90-131).                                          *)
(***************************************************************************)
\* &binlog.DumpBinlogResp{}: the zero value (server.go:91)
ZeroResp == [Payloads |-> <<>>, EndCommitTS |-> 0, Errmsg |-> ""]

\* if limit <= 0 (server.go:98)
LimitReachedOffByOne(limit) == limit < 0

LimitReached(limit) == limit <= 0

\* if cts == start (server.go:107)
IsStartNever(cts, start) == FALSE

IsStart(cts, start) == cts = start

\* if cts >= end (server.go:111)
PastSafeEndExclusive(cts, safeEnd) == cts > safeEnd

PastSafeEnd(cts, safeEnd) == cts >= safeEnd

\* ret.Errmsg = err.Error() when err is not nil (server.go:126-128)
ErrmsgOfNone(e) == ""

ErrmsgOf(e) == IF e # Nil THEN e ELSE ""

\* The scan callback (server.go:97-125).  acc holds what the closure
\* captures and mutates: ret.Payloads, ret.EndCommitTS and limit.  A key of
\* BinlogNamespace is always a whole encoded integer, so codec.DecodeInt
\* does not fail on it.
DumpCallback(acc, start, safeEnd, key, val) ==
    IF LimitReached(acc.limit)
    THEN [cont |-> FALSE, err |-> Nil, acc |-> acc]
    ELSE LET cts == DecodeInt(key) IN
         IF IsStart(cts, start)
         THEN [cont |-> TRUE, err |-> Nil, acc |-> acc]
         ELSE IF PastSafeEnd(cts, safeEnd)
         THEN [cont |-> FALSE, err |-> Nil, acc |-> acc]
         ELSE LET d == decodePayload(val) IN
              IF d.err # Nil
              THEN [cont |-> FALSE, err |-> d.err, acc |-> acc]
              ELSE [cont |-> TRUE, err |-> Nil,
                    acc |-> [Payloads |-> Append(acc.Payloads, d.payload),
                             EndCommitTS |-> cts,
                             limit |-> acc.limit - 1]]

\* store.Scan: seek to startKey, hand every record to the callback in
\* increasing key order until it answers false or fails.
RECURSIVE ScanLoop(_, _, _, _, _)
ScanLoop(db, keys, acc, start, safeEnd) ==
    IF keys = {}
    THEN [err |-> Nil, acc |-> acc, visited |-> 0]
    ELSE LET k == SetMin(keys)
             r == DumpCallback(acc, start, safeEnd, k, db[k])
         IN  IF r.err # Nil \/ ~r.cont
             THEN [err |-> r.err, acc |-> r.acc, visited |-> 1]
             ELSE LET rest == ScanLoop(db, keys \ {k}, r.acc, start, safeEnd)
                  IN  [rest EXCEPT !.visited = @ + 1]

Scan(db, startKey, acc, start, safeEnd) ==
    ScanLoop(db, {k \in DOMAIN db : k >= startKey}, acc, start, safeEnd)

\* the transport: a handler that returns a non-nil error makes the call
\* fail with that error's status and its response value is dropped
Transport(resp, e) ==
    IF e = Nil THEN [status |-> "OK", resp |-> resp]
    ELSE [status |-> "Error", resp |-> ZeroResp]

NoReply == [status |-> "none", resp |-> ZeroResp]
NoReq == [BeginCommitTS |-> 0, Limit |-> 0]

Serving == startPc = "serving" /\ ~gsStopped

\* The state "returned" is the instant a reply is handed to the client: the
\* client takes it (DumpDone) before any other step is looked at.
NoHandOver == rpcPc # "returned"

\* server.go:91-95: a request arrives, end := s.window.LoadLower().  The
\* request's fields are first used by the scan, where the model draws them.
DumpBegin ==
    /\ Serving
    /\ rpcPc = "idle"
    /\ rpcPc' = "scan"
    /\ end' = lower
    /\ UNCHANGED <<pubVars, serverVars, dataVars, req, ret, err, visited, reply>>

\* server.go:97-130: the scan, one read transaction of the store, and the
\* return of ret, errors.Trace(err) to the transport
DumpScan(b, l) ==
    /\ rpcPc = "scan"
    /\ LET start == b
           startKey == EncodeInt(start)
           r == Scan(binlog, startKey,
                     [Payloads |-> ret.Payloads, EndCommitTS |-> ret.EndCommitTS,
                      limit |-> l],
                     start, end)
           resp == [Payloads |-> r.acc.Payloads,
                    EndCommitTS |-> r.acc.EndCommitTS,
                    Errmsg |-> ErrmsgOf(r.err)]
       IN  /\ ret' = resp
           /\ err' = r.err
           /\ visited' = r.visited
           /\ reply' = Transport(resp, r.err)
    /\ req' = [BeginCommitTS |-> b, Limit |-> l]
    /\ rpcPc' = "returned"
    /\ UNCHANGED <<pubVars, serverVars, dataVars, end>>

\* a handler that removes from the store the entries it has returned
DumpDoneConsuming ==
    /\ rpcPc = "returned"
    /\ rpcPc' = "idle"
    /\ req' = NoReq
    /\ end' = 0
    /\ ret' = ZeroResp
    /\ err' = Nil
    /\ visited' = 0
    /\ reply' = NoReply
    /\ binlog' = [k \in DOMAIN binlog \
                        {EncodeInt(ret.Payloads[i]) : i \in DOMAIN ret.Payloads}
                    |-> binlog[k]]
    /\ UNCHANGED <<pubVars, serverVars, lower, upper, conn, watermark, ppc>>

\* the client has taken the reply; the handler's locals are gone
DumpDone ==
    /\ rpcPc = "returned"
    /\ rpcPc' = "idle"
    /\ req' = NoReq
    /\ end' = 0
    /\ ret' = ZeroResp
    /\ err' = Nil
    /\ visited' = 0
    /\ reply' = NoReply
    /\ UNCHANGED <<pubVars, serverVars, dataVars>>

(***************************************************************************)
(* DepositWindow and Collector, from the design document (sections 4.1,    *)
(* 4.2): their code is not in src/.                                        *)
(***************************************************************************)
\* persistLower / persistUpper no-op on a value below the persisted one
persistLowerUnguarded(cur, ts) == ts

persistLower(cur, ts) == IF ts < cur THEN cur ELSE ts

persistUpperInverted(cur, ts) == IF ts > cur THEN cur ELSE ts

persistUpper(cur, ts) == IF ts < cur THEN cur ELSE ts

Known == {p \in Producers : conn[p] # "none"}
MinWatermark == SetMin({watermark[p] : p \in Known})
MaxWatermark == SetMax({watermark[p] : p \in Known})
StoredTS == {DecodeInt(k) : k \in DOMAIN binlog}

Collecting == task["collector"] = "running" /\ ~cancelled

\* a producer connects: one ingestion task for it
Connect(p) ==
    /\ NoHandOver
    /\ Collecting
    /\ conn[p] = "none"
    /\ conn' = [conn EXCEPT ![p] = "active"]
    /\ UNCHANGED <<pubVars, serverVars, rpcVars, binlog, lower, upper, watermark, ppc>>

\* an entry in order: write it, update the producer's watermark
Deliver(p, ts, wellFormed) ==
    /\ NoHandOver
    /\ Collecting
    /\ conn[p] = "active"
    /\ ppc[p] = "idle"
    /\ ts > watermark[p]
    /\ ts \notin StoredTS
    /\ binlog' = (EncodeInt(ts) :> StoredVal(ts, wellFormed)) @@ binlog
    /\ watermark' = [watermark EXCEPT ![p] = ts]
    /\ ppc' = [ppc EXCEPT ![p] = "written"]
    /\ UNCHANGED <<pubVars, serverVars, rpcVars, lower, upper, conn>>

\* a Collector that validates the order only after it has written the entry
RejectAfterWrite(p, ts) ==
    /\ NoHandOver
    /\ Collecting
    /\ conn[p] = "active"
    /\ ppc[p] = "idle"
    /\ ts <= watermark[p]
    /\ binlog' = (EncodeInt(ts) :> StoredVal(ts, TRUE)) @@ binlog
    /\ conn' = [conn EXCEPT ![p] = "gone"]
    /\ UNCHANGED <<pubVars, serverVars, rpcVars, lower, upper, watermark, ppc>>

\* an entry out of order: rejected, the producer's task terminates
Reject(p, ts) ==
    /\ NoHandOver
    /\ Collecting
    /\ conn[p] = "active"
    /\ ppc[p] = "idle"
    /\ ts <= watermark[p]
    /\ conn' = [conn EXCEPT ![p] = "gone"]
    /\ UNCHANGED <<pubVars, serverVars, rpcVars, binlog, lower, upper, watermark, ppc>>

\* after the write: recompute and persist the window
Recompute(p) ==
    /\ NoHandOver
    /\ task["collector"] = "running"
    /\ ppc[p] = "written"
    /\ lower' = persistLower(lower, MinWatermark)
    /\ upper' = persistUpper(upper, MaxWatermark)
    /\ ppc' = [ppc EXCEPT ![p] = "idle"]
    /\ UNCHANGED <<pubVars, serverVars, rpcVars, binlog, conn, watermark>>

\* a producer disconnects without reporting: its watermark still counts
Disconnect(p) ==
    /\ NoHandOver
    /\ Collecting
    /\ conn[p] = "active"
    /\ ppc[p] = "idle"
    /\ conn' = [conn EXCEPT ![p] = "gone"]
    /\ UNCHANGED <<pubVars, serverVars, rpcVars, binlog, lower, upper, watermark, ppc>>

(***************************************************************************)
(* Publisher: delivers the entries the window has released to the sink, in *)
(* commitTS order, and records its progress in the persisted SavePoint.    *)
(***************************************************************************)
Publishing == task["publisher"] = "running" /\ ~cancelled

\* the Entry namespace over the range (from, to], open at from, closed at to
InRange(from, to) == {ts \in StoredTS : from < ts /\ ts <= to}

\* the entry the scan hands over next: the one being retried, else the first
\* one after the SavePoint
NextEntry == IF pubCur # 0 THEN pubCur ELSE SetMin(InRange(savePoint, pubEnd))

\* a round begins: safeEnd = Window.loadLower(); idle while it equals SavePoint
PubLoad ==
    /\ NoHandOver
    /\ Publishing
    /\ pubPc = "idle"
    /\ lower # savePoint
    /\ pubEnd' = lower
    /\ pubPc' = "scan"
    /\ UNCHANGED <<serverVars, dataVars, rpcVars, savePoint, pubCur, attempted,
                   confirmed, boots>>

\* one delivery attempt: confirmed by the sink, or failed and to be retried
PubDeliver(ok) ==
    /\ NoHandOver
    /\ Publishing
    /\ pubPc = "scan"
    /\ pubCur # 0 \/ InRange(savePoint, pubEnd) # {}
    /\ attempted' = attempted \cup {NextEntry}
    /\ pubCur' = NextEntry
    /\ confirmed' = IF ok THEN confirmed \cup {NextEntry} ELSE confirmed
    /\ pubPc' = IF ok THEN "persist" ELSE "scan"
    /\ UNCHANGED <<serverVars, dataVars, rpcVars, savePoint, pubEnd, boots>>

\* the SavePoint is persisted after the confirmed delivery
PubPersist ==
    /\ NoHandOver
    /\ task["publisher"] = "running"
    /\ pubPc = "persist"
    /\ savePoint' = pubCur
    /\ pubCur' = 0
    /\ pubPc' = "scan"
    /\ UNCHANGED <<serverVars, dataVars, rpcVars, pubEnd, attempted, confirmed,
                   boots>>

\* the scan has passed the last entry of the range: the round ends
PubRoundEnd ==
    /\ NoHandOver
    /\ Publishing
    /\ pubPc = "scan"
    /\ pubCur = 0
    /\ InRange(savePoint, pubEnd) = {}
    /\ pubPc' = "idle"
    /\ UNCHANGED <<serverVars, dataVars, rpcVars, savePoint, pubEnd, pubCur,
                   attempted, confirmed, boots>>

(***************************************************************************)
(* Server lifecycle: Start (server.go:164-188), Close (server.go:191-199)  *)
(* and the goroutines they launch and join.                                *)
(***************************************************************************)
\* the goroutine of StartCollect/StartPublish/StartMetrics: wg.Add(1); go ...
Launch(k) ==
    /\ wg' = wg + 1
    /\ task' = [task EXCEPT ![k] = "running"]

\* Start is called; s.StartCollect() (server.go:134-140, 166)
StartCollect ==
    /\ NoHandOver
    /\ startPc = "idle"
    /\ Launch("collector")
    /\ startPc' = "publish"
    /\ UNCHANGED <<pubVars, metricsOn, gsStopped, cancelled, storeOpen, closePc,
                   launchedAtClose, dataVars, rpcVars>>

\* s.StartPublish() (server.go:143-149, 169)
StartPublish ==
    /\ NoHandOver
    /\ startPc = "publish"
    /\ Launch("publisher")
    /\ startPc' = "metrics"
    /\ UNCHANGED <<pubVars, metricsOn, gsStopped, cancelled, storeOpen, closePc,
                   launchedAtClose, dataVars, rpcVars>>

\* s.StartMetrics() (server.go:152-161, 172)
StartMetrics ==
    /\ NoHandOver
    /\ startPc = "metrics"
    /\ IF metricsOn THEN Launch("metrics") ELSE UNCHANGED <<wg, task>>
    /\ startPc' = "listen"
    /\ UNCHANGED <<pubVars, metricsOn, gsStopped, cancelled, storeOpen, closePc,
                   launchedAtClose, dataVars, rpcVars>>

\* url.Parse, net.Listen, RegisterCisternServer, s.gs.Serve (server.go:175-186):
\* Start returns an error when the address cannot be listened on; Serve on
\* a stopped grpc server returns at once, else it serves until stopped
StartServe(listenOk) ==
    /\ NoHandOver
    /\ startPc = "listen"
    /\ startPc' = IF listenOk /\ ~gsStopped THEN "serving" ELSE "done"
    /\ UNCHANGED <<pubVars, metricsOn, gsStopped, cancelled, wg, storeOpen, task, closePc,
                   launchedAtClose, dataVars, rpcVars>>

\* s.gs.Serve returns once the server is stopped; Start returns nil
\* (server.go:186-187)
ServeReturn ==
    /\ NoHandOver
    /\ startPc = "serving"
    /\ gsStopped
    /\ startPc' = "done"
    /\ UNCHANGED <<pubVars, metricsOn, gsStopped, cancelled, wg, storeOpen, task, closePc,
                   launchedAtClose, dataVars, rpcVars>>

\* Close is called; s.gs.GracefulStop() stops accepting (server.go:193)
CloseGracefulStop ==
    /\ NoHandOver
    /\ closePc = "idle"
    /\ gsStopped' = TRUE
    /\ closePc' = "drain"
    /\ launchedAtClose' = (startPc \in {"listen", "serving", "done"})
    /\ UNCHANGED <<pubVars, metricsOn, cancelled, wg, storeOpen, task, startPc,
                   dataVars, rpcVars>>

\* a Close that calls s.gs.Stop() where the code calls s.gs.GracefulStop():
\* it goes on without waiting for the pending RPCs
CloseDrainedNoWait ==
    /\ NoHandOver
    /\ closePc = "drain"
    /\ closePc' = "cancel"
    /\ UNCHANGED <<pubVars, metricsOn, gsStopped, cancelled, wg, storeOpen, task, startPc,
                   launchedAtClose, dataVars, rpcVars>>

\* GracefulStop returns when the pending RPCs have finished (server.go:193)
CloseDrained ==
    /\ NoHandOver
    /\ closePc = "drain"
    /\ rpcPc = "idle"
    /\ closePc' = "cancel"
    /\ UNCHANGED <<pubVars, metricsOn, gsStopped, cancelled, wg, storeOpen, task, startPc,
                   launchedAtClose, dataVars, rpcVars>>

\* a Close that leaves out s.cancel() and goes straight to the join
CloseCancelForgotten ==
    /\ NoHandOver
    /\ closePc = "cancel"
    /\ closePc' = "wait"
    /\ UNCHANGED <<pubVars, metricsOn, gsStopped, cancelled, wg, storeOpen, task, startPc,
                   launchedAtClose, dataVars, rpcVars>>

\* s.cancel() (server.go:195)
CloseCancel ==
    /\ NoHandOver
    /\ closePc = "cancel"
    /\ cancelled' = TRUE
    /\ closePc' = "wait"
    /\ UNCHANGED <<pubVars, metricsOn, gsStopped, wg, storeOpen, task, startPc,
                   launchedAtClose, dataVars, rpcVars>>

\* s.wg.Wait() returns when the counter is zero (server.go:197)
CloseWaitNoJoin ==
    /\ NoHandOver
    /\ closePc = "wait"
    /\ closePc' = "close"
    /\ UNCHANGED <<pubVars, metricsOn, gsStopped, cancelled, wg, storeOpen, task, startPc,
                   launchedAtClose, dataVars, rpcVars>>

CloseWait ==
    /\ NoHandOver
    /\ closePc = "wait"
    /\ wg = 0
    /\ closePc' = "close"
    /\ UNCHANGED <<pubVars, metricsOn, gsStopped, cancelled, wg, storeOpen, task, startPc,
                   launchedAtClose, dataVars, rpcVars>>

\* s.boltdb.Close() (server.go:198)
CloseStore ==
    /\ NoHandOver
    /\ closePc = "close"
    /\ storeOpen' = FALSE
    /\ closePc' = "done"
    /\ UNCHANGED <<pubVars, metricsOn, gsStopped, cancelled, wg, task, startPc,
                   launchedAtClose, dataVars, rpcVars>>

\* collector.Start / publisher.Start / metrics.Start return once they see
\* s.ctx cancelled (the Collector after its in-flight writes are finished,
\* the Publisher between two entries, never between a confirmed delivery and
\* its SavePoint);
\* the deferred s.wg.Done() runs (server.go:137, 146, 158)
TaskExit(k) ==
    /\ NoHandOver
    /\ task[k] = "running"
    /\ cancelled
    /\ k = "collector" => \A p \in Producers : ppc[p] = "idle"
    /\ k = "publisher" => pubPc # "persist"
    /\ task' = [task EXCEPT ![k] = "exited"]
    /\ wg' = wg - 1
    /\ UNCHANGED <<pubVars, metricsOn, gsStopped, cancelled, storeOpen, startPc, closePc,
                   launchedAtClose, dataVars, rpcVars>>

(***************************************************************************)
(* Specifications.                                                         *)
(***************************************************************************)
InitData ==
    /\ binlog = <<>>
    /\ lower = 0
    /\ upper = 0
    /\ conn = [p \in Producers |-> "none"]
    /\ watermark = [p \in Producers |-> 0]
    /\ ppc = [p \in Producers |-> "idle"]

InitRpc ==
    /\ rpcPc = "idle"
    /\ req = NoReq
    /\ end = 0
    /\ ret = ZeroResp
    /\ err = Nil
    /\ visited = 0
    /\ reply = NoReply

InitPub ==
    /\ savePoint = 0
    /\ pubPc = "idle"
    /\ pubEnd = 0
    /\ pubCur = 0
    /\ attempted = {}
    /\ confirmed = {}
    /\ boots = 0

\* the server in state Running: Start has launched its tasks and serves
InitRunning ==
    /\ metricsOn = TRUE
    /\ gsStopped = FALSE
    /\ cancelled = FALSE
    /\ storeOpen = TRUE
    /\ task = [k \in Tasks |-> IF k = "metrics" /\ ~metricsOn THEN "none" ELSE "running"]
    /\ wg = IF metricsOn THEN 3 ELSE 2
    /\ startPc = "serving"
    /\ closePc = "idle"
    /\ launchedAtClose = FALSE
    /\ InitData
    /\ InitRpc
    /\ InitPub

\* The steps of the pull RPC, with the requests drawn from B x L
RpcSteps(B, L) ==
    \/ DumpBegin
    \/ \E b \in B, l \in L : DumpScan(b, l)
    \/ DumpDone

\* The steps of the Collector, with the producers' commit timestamps drawn
\* from T
CollectorSteps(T) ==
    \/ \E p \in Producers : Connect(p)
    \/ \E p \in Producers, ts \in T, wf \in BOOLEAN : Deliver(p, ts, wf)
    \/ \E p \in Producers, ts \in T : Reject(p, ts)
    \/ \E p \in Producers : Recompute(p)
    \/ \E p \in Producers : Disconnect(p)

NextRunning ==
    \/ RpcSteps(Begins, Limits)
    \/ CollectorSteps(TS)

SpecRunning == InitRunning /\ [][NextRunning]_vars

\* The steps of the Publisher
PublisherSteps ==
    \/ PubLoad
    \/ \E ok \in BOOLEAN : PubDeliver(ok)
    \/ PubPersist
    \/ PubRoundEnd

\* The process is killed and started again: what the Store holds (entries,
\* window, SavePoint) is kept, what the tasks held in memory is lost, the
\* producers have to connect again, and the server is Running again.
CrashRestart ==
    /\ boots < MaxCrashes
    /\ startPc = "serving"
    /\ closePc = "idle"
    /\ boots' = boots + 1
    /\ conn' = [p \in Producers |-> "none"]
    /\ watermark' = [p \in Producers |-> 0]
    /\ ppc' = [p \in Producers |-> "idle"]
    /\ pubPc' = "idle"
    /\ pubEnd' = 0
    /\ pubCur' = 0
    /\ rpcPc' = "idle"
    /\ req' = NoReq
    /\ end' = 0
    /\ ret' = ZeroResp
    /\ err' = Nil
    /\ visited' = 0
    /\ reply' = NoReply
    /\ UNCHANGED <<serverVars, binlog, lower, upper, savePoint, attempted,
                   confirmed>>

\* The running server with its Collector, its Publisher and the pull RPC,
\* across crashes; the requests are drawn from a small set, SpecRunning draws
\* them from the full one
PublishBegins == {0}
PublishLimits == {1}

NextPublish ==
    \/ RpcSteps(PublishBegins, PublishLimits)
    \/ CollectorSteps(TS)
    \/ PublisherSteps
    \/ CrashRestart

SpecPublish == InitRunning /\ [][NextPublish]_vars

\* NewServer (server.go:44-87): the store is open, the context is live,
\* nothing is launched
Init ==
    /\ metricsOn \in BOOLEAN
    /\ gsStopped = FALSE
    /\ cancelled = FALSE
    /\ storeOpen = TRUE
    /\ task = [k \in Tasks |-> "none"]
    /\ wg = 0
    /\ startPc = "idle"
    /\ closePc = "idle"
    /\ launchedAtClose = FALSE
    /\ InitData
    /\ InitRpc
    /\ InitPub

LifecycleNext ==
    \/ StartCollect
    \/ StartPublish
    \/ StartMetrics
    \/ \E ok \in BOOLEAN : StartServe(ok)
    \/ ServeReturn
    \/ CloseGracefulStop
    \/ CloseDrained
    \/ CloseCancel
    \/ CloseWait
    \/ CloseStore
    \/ \E k \in Tasks : TaskExit(k)

\* The whole server.  What Start and Close wait for is whether a write or a
\* call is in flight, not its data: the requests and timestamps are drawn
\* from the small sets below, SpecRunning draws them from the full ones.
ShutdownTS == {1, 2}
ShutdownBegins == {0}
ShutdownLimits == {0, 1}

Next ==
    \/ RpcSteps(ShutdownBegins, ShutdownLimits)
    \/ CollectorSteps(ShutdownTS)
    \/ PublisherSteps
    \/ LifecycleNext

Spec == Init /\ [][Next]_vars

\* The whole server under the scheduling its runtime gives: the caller of
\* Close keeps running, a DumpBinlog call in flight finishes, an accepted
\* entry is followed by its recompute, a confirmed delivery by its SavePoint,
\* and a task that can observe the cancelled context returns.  Nothing is assumed about Start or about the
\* producers.
Fairness ==
    /\ WF_vars(CloseDrained)
    /\ WF_vars(CloseCancel)
    /\ WF_vars(CloseWait)
    /\ WF_vars(CloseStore)
    /\ WF_vars(\E b \in ShutdownBegins, l \in ShutdownLimits : DumpScan(b, l))
    /\ WF_vars(DumpDone)
    /\ \A p \in Producers : WF_vars(Recompute(p))
    /\ WF_vars(PubPersist)
    /\ \A k \in Tasks : WF_vars(TaskExit(k))

SpecLive == Init /\ [][Next]_vars /\ Fairness

(***************************************************************************)
(* What the claims speak of.                                               *)
(***************************************************************************)
RECURSIVE Ascending(_)
Ascending(S) ==
    IF S = {} THEN <<>>
    ELSE LET m == SetMin(S) IN <<m>> \o Ascending(S \ {m})

Least(a, b) == IF a <= b THEN a ELSE b

\* the commitTS of the stored entries a request may be given: after its
\* BeginCommitTS and below the safeEnd it read
Eligible == {ts \in StoredTS : req.BeginCommitTS < ts /\ ts < end}
WellFormedAt(ts) == binlog[EncodeInt(ts)].wellFormed
LastOf(seq) == seq[Len(seq)]

\* the eligible entries whose payload the scan reaches and cannot decode:
\* every eligible entry before it decodes and they are fewer than Limit
FailingAt ==
    {bad \in Eligible :
        /\ ~WellFormedAt(bad)
        /\ \A ts \in Eligible : ts < bad => WellFormedAt(ts)
        /\ Cardinality({ts \in Eligible : ts < bad}) < req.Limit}

AllIdle == \A p \in Producers : ppc[p] = "idle"

\* C1: every entry of a DumpBinlog response has a commitTS strictly below the
\* safeEnd read before the scan, which is at most Window.lower when the
\* response is returned, whatever the Collector did in between.
C1_ResponseBelowLower ==
    rpcPc = "returned" =>
        /\ end <= lower
        /\ \A i \in DOMAIN ret.Payloads :
              ret.Payloads[i] < end /\ ret.Payloads[i] < lower

\* C1 witness: a response with entries, returned after the Collector advanced
\* Window.lower past the safeEnd the call had read
C1_Witness ==
    /\ rpcPc = "returned"
    /\ Len(ret.Payloads) >= 1
    /\ end < lower
    /\ \E ts \in StoredTS : end <= ts /\ ts < lower /\ req.BeginCommitTS < ts

\* C2: with Limit > 0 and no decode failure, the response holds exactly the
\* first min(Limit, n) of the n stored entries with BeginCommitTS < commitTS <
\* safeEnd, in increasing commitTS order, and EndCommitTS is the last of them.
C2_RangeQueryResult ==
    (rpcPc = "returned" /\ req.Limit > 0 /\ err = Nil) =>
        LET all == Ascending(Eligible)
            n == Least(req.Limit, Len(all))
        IN  /\ ret.Payloads = SubSeq(all, 1, n)
            /\ \A i, j \in DOMAIN ret.Payloads :
                  i < j => ret.Payloads[i] < ret.Payloads[j]
            /\ n > 0 => ret.EndCommitTS = LastOf(ret.Payloads)

\* C2 witness: the boundary example: an entry at BeginCommitTS, which is
\* skipped, entries on both sides of Window.lower, and a response that ends
\* at the last entry below it
C2_Witness ==
    /\ rpcPc = "returned"
    /\ err = Nil
    /\ req.BeginCommitTS \in StoredTS
    /\ \E ts \in StoredTS : ts >= end
    /\ req.Limit > Len(ret.Payloads)
    /\ Len(ret.Payloads) >= 1
    /\ ret.EndCommitTS = end - 1

\* C3 (as claimed): a response without entries carries the request's
\* BeginCommitTS as its EndCommitTS.
C3_EmptyKeepsBegin ==
    (rpcPc = "returned" /\ Len(ret.Payloads) = 0) =>
        ret.EndCommitTS = req.BeginCommitTS

\* C4: a payload decode fails exactly when the scan reaches an eligible entry
\* that does not decode; the scan stops there, the response holds the
\* eligible entries before that key in order, EndCommitTS is the last of
\* them, and Errmsg is not empty.
C4_DecodeFailureStops ==
    rpcPc = "returned" =>
        /\ (err # Nil) = (FailingAt # {})
        /\ err # Nil =>
              \E bad \in FailingAt :
                  /\ ret.Payloads = Ascending({ts \in Eligible : ts < bad})
                  /\ Len(ret.Payloads) > 0 =>
                        ret.EndCommitTS = LastOf(ret.Payloads)
                  /\ ret.Errmsg # ""
                  /\ visited =
                        Cardinality({ts \in StoredTS :
                                        req.BeginCommitTS <= ts /\ ts <= bad})

\* C4 witness: a decode failure after an entry was collected, with a further
\* record stored behind the failing key
C4_Witness ==
    /\ rpcPc = "returned"
    /\ err # Nil
    /\ Len(ret.Payloads) >= 1
    /\ \E ts \in StoredTS : ts > LastOf(ret.Payloads) + 1

\* C5 (as claimed): a decode failure still completes the call normally, and
\* the client receives the partial response with its Errmsg.
C5_DecodeFailureReplies ==
    (rpcPc = "returned" /\ err # Nil) =>
        reply.status = "OK" /\ reply.resp = ret

\* C6 (as claimed): with Limit <= 0 the response is empty and the scan hands
\* no store record to the callback.
C6_NoScanOnZeroLimit ==
    (rpcPc = "returned" /\ req.Limit <= 0) =>
        Len(ret.Payloads) = 0 /\ visited = 0

\* C6 (amended): with Limit <= 0 the response is empty and without error;
\* the scan is still started and hands the callback the first record at or
\* after BeginCommitTS when there is one, and no other record.
C6_OneRecordOnZeroLimit ==
    (rpcPc = "returned" /\ req.Limit <= 0) =>
        /\ ret = ZeroResp
        /\ err = Nil
        /\ reply = [status |-> "OK", resp |-> ZeroResp]
        /\ visited = IF \E ts \in StoredTS : ts >= req.BeginCommitTS THEN 1 ELSE 0

\* C6 witness: a request with Limit <= 0 on a store holding several records
\* at or after BeginCommitTS
C6_Witness ==
    /\ rpcPc = "returned"
    /\ req.Limit <= 0
    /\ visited = 1
    /\ Cardinality({ts \in StoredTS : ts >= req.BeginCommitTS /\ ts < end}) >= 2

\* C7: when Close is called after Start has launched its tasks, the Store is
\* closed only after cancellation was signalled and every launched task has
\* returned: the Store is never closed while one of them runs.
C7_ShutdownJoin ==
    (launchedAtClose /\ closePc \in {"close", "done"}) =>
        /\ cancelled
        /\ wg = 0
        /\ task["collector"] = "exited"
        /\ task["publisher"] = "exited"
        /\ task["metrics"] = IF metricsOn THEN "exited" ELSE "none"
        /\ AllIdle

\* C7 witness: the Store closed by a Close that found all three tasks launched
C7_Witness ==
    /\ launchedAtClose
    /\ ~storeOpen
    /\ \A k \in Tasks : task[k] = "exited"

\* C8 (as claimed): once the Store is closed, no Collector or Publisher task
\* runs and no Range Query is served.
C8_NothingAfterClosed ==
    ~storeOpen =>
        /\ task["collector"] # "running"
        /\ task["publisher"] # "running"
        /\ ~Serving
        /\ rpcPc # "scan"

\* C9: the persisted Window.lower and Window.upper never decrease.
C9_WindowMonotonic == [][lower' >= lower /\ upper' >= upper]_vars

\* C9 witness: a producer that joined late has delivered below the persisted
\* lower and its recompute has run: persistLower was given a smaller value
C9_Witness ==
    \E p \in Producers :
        /\ ppc[p] = "idle"
        /\ 0 < watermark[p]
        /\ watermark[p] < lower

C17_DrainBeforeClose ==
    /\ closePc \in {"cancel", "wait", "close", "done"} =>
            (gsStopped /\ ~Serving /\ rpcPc = "idle")
    /\ cancelled => (gsStopped /\ rpcPc = "idle")
    /\ ~storeOpen => (cancelled /\ rpcPc # "scan")
    /\ rpcPc = "scan" => (storeOpen /\ ~cancelled)

\* C17 witness: Close has stopped the RPC server and waits in GracefulStop
\* for a DumpBinlog scan that was in flight when it was called
C17_Witness ==
    /\ closePc = "drain"
    /\ gsStopped
    /\ rpcPc = "scan"
    /\ storeOpen
    /\ ~cancelled

\* C18: once Close has been called it passes GracefulStop, the cancellation,
\* the join on the WaitGroup and the closing of the Store: the server reaches
\* Closed, whatever Start, the producers and the clients do meanwhile.
C18_ShutdownTerminates == (closePc # "idle") ~> (closePc = "done")

\* C18 witness: a Close called while Start was still launching the tasks has
\* returned, and every task has returned too
C18_Witness ==
    /\ closePc = "done"
    /\ ~launchedAtClose
    /\ \A k \in Tasks : task[k] = "exited"
    /\ wg = 0

\* C16: a step that ends a producer's ingestion task, as the rejection of an
\* out-of-order entry does, changes nothing else: the stored entries, lower,
\* upper, every watermark and every other producer's task are as before; and
\* an entry is stored only with a commitTS above its producer's last-seen
\* one, so an out-of-order entry is never stored.
C16_RejectOutOfOrder ==
    [][ /\ \A p \in Producers :
              (conn[p] = "active" /\ conn'[p] = "gone") =>
                  /\ binlog' = binlog
                  /\ lower' = lower
                  /\ upper' = upper
                  /\ watermark' = watermark
                  /\ ppc' = ppc
                  /\ \A q \in Producers \ {p} : conn'[q] = conn[q]
        /\ binlog' # binlog =>
              \E p \in Producers :
                  /\ watermark'[p] > watermark[p]
                  /\ StoredTS' = StoredTS \cup {watermark'[p]}
                  /\ conn'[p] = "active"
      ]_vars

\* C16 witness: a producer's task has ended after it had delivered (an entry
\* at or below its watermark is out of order), while the other producer is
\* connected and has stored an entry of its own
C16_Witness ==
    \E p, q \in Producers :
        /\ p # q
        /\ conn[p] = "gone"
        /\ watermark[p] > 0
        /\ conn[q] = "active"
        /\ watermark[q] > 0
        /\ watermark[q] # watermark[p]
        /\ Cardinality(StoredTS) >= 2

\* C11 (as claimed): once lower has value L the stored entries with commitTS
\* below L never change: no step writes, overwrites or removes an entry below
\* the current lower, whichever producer it comes from; and lower advances
\* only to the commitTS of an entry that is already stored.
C11_StablePrefix ==
    [][ /\ \A ts \in TS :
              ts < lower =>
                  /\ (ts \in StoredTS') = (ts \in StoredTS)
                  /\ ts \in StoredTS => binlog'[EncodeInt(ts)] = binlog[EncodeInt(ts)]
        /\ lower' # lower => (binlog' = binlog /\ lower' \in StoredTS)
      ]_vars

\* C13 (as claimed): the Publisher never hands the sink an entry whose
\* commitTS is at or above the current Window.lower.
C13_PublisherBelowLower ==
    /\ pubCur # 0 => pubCur < lower
    /\ \A ts \in attempted : ts < lower

\* what the consumers have been given: the entries handed to the sink, and
\* the entries of the DumpBinlog response being returned
GivenOut ==
    attempted \cup
    (IF rpcPc = "returned" THEN {ret.Payloads[i] : i \in DOMAIN ret.Payloads}
     ELSE {})

\* the entries that are written while the window has not been recomputed
\* and persisted for them
Pending == {watermark[p] : p \in {q \in Producers : ppc[q] = "written"}}

\* the entries that are written but not windowed: those above the persisted
\* lower, and those written below it whose recompute is still to come
NotYetWindowed ==
    {ts \in StoredTS : ts > lower} \cup {ts \in Pending : ts < lower}

\* C12 (as claimed): a crash between the write of an entry and the persisting
\* of the window leaves the persisted lower (and upper, the entries and the
\* SavePoint) as they were, and neither before nor after the crash is a
\* written but not yet windowed entry given to the Publisher's sink or to a
\* Range Query.
C12_CrashConsistency ==
    [][ /\ boots' # boots =>
              (lower' = lower /\ upper' = upper /\ binlog' = binlog
               /\ savePoint' = savePoint)
        /\ NotYetWindowed' \cap GivenOut' = {}
      ]_vars

\* C14 (as claimed): for stored entries e1, e2 with commitTS(e1) below
\* commitTS(e2), the sink has confirmed e1 before e2 is handed to it for the
\* first time: whenever e2 has been handed to the sink, e1 is confirmed.
C14_PublishInOrder ==
    \A e1 \in StoredTS, e2 \in StoredTS :
        (e1 < e2 /\ e2 \in attempted) => e1 \in confirmed

\* C15 (as claimed): the SavePoint never decreases and is never at or past
\* the commitTS of a stored entry whose delivery the sink has not confirmed,
\* so a Publisher that restarts from the SavePoint skips no entry; and at
\* most one entry above the SavePoint has been handed to the sink, so a
\* restart delivers at most that one again.
C15_SavePointResumable ==
    [][ /\ savePoint' >= savePoint
        /\ \A e \in StoredTS' : e <= savePoint' => e \in confirmed'
        /\ Cardinality({e \in attempted' : e > savePoint'}) <= 1
      ]_vars

\* C19: no step of a DumpBinlog call, whatever its BeginCommitTS and Limit
\* and whether or not a payload fails to decode, changes the stored entries,
\* Window.lower, Window.upper or the SavePoint.
C19_RangeQueryReadOnly ==
    [][ rpcPc' # rpcPc =>
            /\ binlog' = binlog
            /\ lower' = lower
            /\ upper' = upper
            /\ savePoint' = savePoint
      ]_vars

\* C19 witness: a call has returned entries from a store that holds more,
\* with the window open above lower
C19_Witness ==
    /\ rpcPc = "returned"
    /\ req.Limit >= 1
    /\ Len(ret.Payloads) >= 1
    /\ Cardinality(StoredTS) > Len(ret.Payloads)
    /\ 0 < lower
    /\ lower < upper

====
